---- MODULE Spec2Model ----
(***************************************************************************)
(* Model of week1/scraper.py: the plain fetch (fetch_website_contents,     *)
(* fetch_website_links) and the rendered fetch                             *)
(* (fetch_website_contents_selenium) with its optional driver handle.      *)
(*                                                                         *)
(* A Python str is a sequence of one-character strings.  A parsed          *)
(* document (the BeautifulSoup object) is the sequence of its nodes in     *)
(* document order; every node names its parent by index, 0 being the soup  *)
(* object itself.  An optional value is <<>> (None) or <<v>>.              *)
(***************************************************************************)
EXTENDS Integers, Sequences, FiniteSets, TLC

\* ------------------------------------------------------------------ bounds
\* Longest run of fragments inside a generated <body>.
MaxFrags == 2
\* Calls a caller makes in one behaviour of the plain / rendered lifecycle.
MaxCalls == 2
\* Browser sessions the caller itself opens and may hand to the rendered fetch.
MaxCallerSessions == 1

\* --------------------------------------------------------------- constants
\* scraper.py:30 and :113, the slice [:2_000]
Limit == 2000

None == <<>>
Some(v) == <<v>>

NL == "\n"
\* str.strip() with no argument strips whitespace
Whitespace == {" ", NL, "\t"}

Min(a, b) == IF a < b THEN a ELSE b

Rep(c, n) == [i \in 1..n |-> c]

\* ------------------------------------------------------------ str helpers
RECURSIVE FirstNonWs(_, _)
FirstNonWs(s, i) ==
    IF i > Len(s) \/ s[i] \notin Whitespace THEN i ELSE FirstNonWs(s, i + 1)

RECURSIVE LastNonWs(_, _)
LastNonWs(s, j) ==
    IF j < 1 \/ s[j] \notin Whitespace THEN j ELSE LastNonWs(s, j - 1)

\* str.strip()
strip(s) == SubSeq(s, FirstNonWs(s, 1), LastNonWs(s, Len(s)))

\* sep.join(strings)
RECURSIVE join(_, _)
join(sep, strings) ==
    IF strings = <<>> THEN <<>>
    ELSE IF Len(strings) = 1 THEN strings[1]
    ELSE strings[1] \o sep \o join(sep, Tail(strings))

\* s[:n]
slice(s, n) == SubSeq(s, 1, Min(n, Len(s)))

\* ------------------------------------------------------------------- DOM
Tag(name, parent) ==
    [kind |-> "Tag", name |-> name, text |-> <<>>, parent |-> parent, href |-> None]
Anchor(href, parent) ==
    [kind |-> "Tag", name |-> "a", text |-> <<>>, parent |-> parent, href |-> href]
Text(s, parent) ==
    [kind |-> "NavigableString", name |-> "", text |-> s, parent |-> parent, href |-> None]
Comment(s, parent) ==
    [kind |-> "Comment", name |-> "", text |-> s, parent |-> parent, href |-> None]

\* i is a proper descendant of a (a = 0: of the soup object)
RECURSIVE IsDescendant(_, _, _)
IsDescendant(doc, i, a) ==
    IF a = 0 THEN TRUE
    ELSE IF doc[i].parent = 0 THEN FALSE
    ELSE doc[i].parent = a \/ IsDescendant(doc, doc[i].parent, a)

\* the indices in S in increasing (document) order
RECURSIVE InOrder(_, _, _)
InOrder(S, i, n) ==
    IF i > n THEN <<>>
    ELSE (IF i \in S THEN <<i>> ELSE <<>>) \o InOrder(S, i + 1, n)

\* tag.contents
contents(doc, i) == InOrder({j \in 1..Len(doc) : doc[j].parent = i}, 1, Len(doc))

\* tag.find_all(names): every descendant tag with one of the names, in document order
find_all(doc, root, names) ==
    InOrder({j \in 1..Len(doc) :
                /\ doc[j].kind = "Tag"
                /\ doc[j].name \in names
                /\ IsDescendant(doc, j, root)}, 1, Len(doc))

\* soup.<name>: the first such tag of the document, or None
find(doc, name) ==
    LET all == find_all(doc, 0, {name})
    IN  IF all = <<>> THEN None ELSE Some(all[1])

\* tag.string: None unless the tag has exactly one child; that child if it is
\* a string (a Comment is a NavigableString), else the child's own .string
RECURSIVE string(_, _)
string(doc, i) ==
    LET c == contents(doc, i)
    IN  IF Len(c) # 1 THEN None
        ELSE IF doc[c[1]].kind = "Tag" THEN string(doc, c[1])
        ELSE Some(doc[c[1]].text)

\* ----------------------------------------------------------- extraction
\* the result of a call: a returned value, or the exception that left it
Returned(v) == [raised |-> "", value |-> v]
Raised(e) == [raised |-> e, value |-> <<>>]

NoTitleFound == <<"N","o"," ","t","i","t","l","e"," ","f","o","u","n","d">>

\* scraper.py:24 and :107, the list given to soup.body(...)
NoiseTags == {"script", "style", "img", "input"}

\* a removal that unlinks the tags and leaves what was inside them
decompose_tags_only(doc, tags) ==
    {j \in 1..Len(doc) : \E k \in 1..Len(tags) : j = tags[k]}

\* tag.decompose() for each tag of the list: the nodes destroyed, the tags and
\* everything below them
decompose(doc, tags) ==
    {j \in 1..Len(doc) :
        \E k \in 1..Len(tags) : j = tags[k] \/ IsDescendant(doc, j, tags[k])}

\* the strings get_text walks: the descendants of root that are still in the
\* tree and are exactly NavigableString (a Comment is skipped)
all_strings(doc, gone, root) ==
    InOrder({j \in 1..Len(doc) :
                /\ j \notin gone
                /\ doc[j].kind = "NavigableString"
                /\ IsDescendant(doc, j, root)}, 1, Len(doc))

RECURSIVE StrippedNonEmpty(_, _, _)
StrippedNonEmpty(doc, idx, k) ==
    IF k > Len(idx) THEN <<>>
    ELSE LET t == strip(doc[idx[k]].text)
         IN  (IF t = <<>> THEN <<>> ELSE <<t>>) \o StrippedNonEmpty(doc, idx, k + 1)

\* a get_text that strips every string and drops none
get_text_keeping_blank_strings(doc, gone, root, sep) ==
    LET idx == all_strings(doc, gone, root)
    IN  join(sep, [k \in 1..Len(idx) |-> strip(doc[idx[k]].text)])

\* tag.get_text(separator=sep, strip=True): every string stripped, the ones
\* that strip to nothing dropped, the rest joined by sep
get_text(doc, gone, root, sep) ==
    join(sep, StrippedNonEmpty(doc, all_strings(doc, gone, root), 1))

\* a cut that is applied to the body text alone
concat_title_cut_text_only(title, text) ==
    IF title = None THEN Raised("TypeError")
    ELSE Returned(title[1] \o <<NL, NL>> \o slice(text, Limit))

\* title + "\n\n" + text: a TypeError when title is None
concat_title(title, text) ==
    IF title = None THEN Raised("TypeError")
    ELSE Returned(slice(title[1] \o <<NL, NL>> \o text, Limit))

\* fetch_website_contents, from the parsed response on (scraper.py:20-30)
contents_of_response(soup) ==
    LET t == find(soup, "title")
        title == IF t # None THEN string(soup, t[1]) ELSE Some(NoTitleFound)
        body == find(soup, "body")
        text == IF body # None
                THEN get_text(soup,
                              decompose(soup, find_all(soup, body[1], NoiseTags)),
                              body[1], <<NL>>)
                ELSE <<>>
    IN  concat_title(title, text)

\* a rendered extraction that has drifted from the plain one: style kept
contents_of_page_source_drifted(soup) ==
    LET t == find(soup, "title")
        title == IF t # None THEN string(soup, t[1]) ELSE Some(NoTitleFound)
        body == find(soup, "body")
        text == IF body # None
                THEN get_text(soup,
                              decompose(soup,
                                  find_all(soup, body[1], {"script", "img", "input"})),
                              body[1], <<NL>>)
                ELSE <<>>
    IN  IF title = None THEN Raised("TypeError")
        ELSE Returned(slice(title[1] \o <<NL, NL>> \o text, 2000))

\* fetch_website_contents_selenium, from the parsed page_source on
\* (scraper.py:102-113)
contents_of_page_source(soup) ==
    LET t == find(soup, "title")
        title == IF t # None THEN string(soup, t[1]) ELSE Some(NoTitleFound)
        body == find(soup, "body")
        text == IF body # None
                THEN get_text(soup,
                              decompose(soup,
                                  find_all(soup, body[1],
                                           {"script", "style", "img", "input"})),
                              body[1], <<NL>>)
                ELSE <<>>
    IN  IF title = None THEN Raised("TypeError")
        ELSE Returned(slice(title[1] \o <<NL, NL>> \o text, 2000))

\* a filter that drops the missing href and keeps the empty one
NotNone(href) == href # None

\* scraper.py:44, `if link`
Truthy(href) == href # None /\ href[1] # ""

\* fetch_website_links, from the parsed response on (scraper.py:42-44)
links_of_response(soup) ==
    LET as == find_all(soup, 0, {"a"})
        links == [k \in 1..Len(as) |-> soup[as[k]].href]
        kept == SelectSeq(links, Truthy)
    IN  Returned([k \in 1..Len(kept) |-> kept[k][1]])

\* ------------------------------------------------------------- documents
\* A fragment is a run of nodes whose parents are relative to the fragment,
\* 0 being the place it is attached to.
Attach(doc, frag, at) ==
    doc \o [k \in 1..Len(frag) |->
              [frag[k] EXCEPT !.parent = IF @ = 0 THEN at ELSE @ + Len(doc)]]

\* what precedes the body: the title in its shapes
HeadVariants ==
    { <<>>,                                                       \* no title
      <<Tag("title", 0), Text(<<"t">>, 1)>>,                      \* <title>t</title>
      <<Tag("title", 0)>>,                                        \* <title></title>
      <<Tag("title", 0), Text(<<"t">>, 1), Comment(<<"c">>, 1)>>, \* <title>t<!--c--></title>
      <<Tag("title", 0), Tag("b", 1), Text(<<"t">>, 2)>>,         \* <title><b>t</b></title>
      <<Tag("title", 0), Comment(<<"c">>, 1)>>,                   \* <title><!--c--></title>
      <<Tag("title", 0), Text(Rep("t", Limit - 1), 1)>>,
      <<Tag("title", 0), Text(Rep("t", Limit + 1), 1)>>,
      \* <script>s</script><a href="/r">r</a><title> t</title><title>u</title>
      <<Tag("script", 0), Text(<<"s">>, 1), Anchor(Some("/r"), 0), Text(<<"r">>, 3),
        Tag("title", 0), Text(<<" ", "t">>, 5), Tag("title", 0), Text(<<"u">>, 7)>> }

\* what a body may hold
BodyFrags ==
    { <<Tag("p", 0), Text(<<" ", "x", " ">>, 1)>>,                \* <p> x </p>
      <<Text(<<" ", NL>>, 0)>>,                                   \* whitespace only
      <<Comment(<<"c">>, 0)>>,                                    \* <!--c-->
      <<Text(Rep("x", Limit + 1000), 0)>>,
      <<Tag("title", 0), Text(<<"u">>, 1)>>,                      \* a title inside body
      <<Tag("script", 0), Text(<<"s">>, 1)>>,                     \* <script>s</script>
      <<Tag("style", 0), Text(<<"k">>, 1)>>,                      \* <style>k</style>
      \* <p><img><input>z</p>
      <<Tag("p", 0), Tag("img", 1), Tag("input", 1), Text(<<"z">>, 1)>>,
      \* <p>y<script>y</script>w</p>
      <<Tag("p", 0), Text(<<"y">>, 1), Tag("script", 1), Text(<<"y">>, 3),
        Text(<<"w">>, 1)>>,
      <<Anchor(Some("/x"), 0), Text(<<"l">>, 1)>>,                \* <a href="/x">l</a>
      \* <a></a><a href=""></a><a href="/x"></a>
      <<Anchor(None, 0), Anchor(Some(""), 0), Anchor(Some("/x"), 0)>>,
      <<Anchor(Some("/y"), 0)>> }                                 \* <a href="/y"></a>

RECURSIVE FragRuns(_)
FragRuns(n) ==
    IF n = 0 THEN {<<>>}
    ELSE LET shorter == FragRuns(n - 1)
         IN  shorter \cup {<<f>> \o r : f \in BodyFrags, r \in {q \in shorter : Len(q) = n - 1}}

RECURSIVE AttachAll(_, _, _)
AttachAll(doc, run, at) ==
    IF run = <<>> THEN doc
    ELSE AttachAll(Attach(doc, run[1], at), Tail(run), at)

WithBody(head, run) ==
    LET d == head \o <<Tag("body", 0)>>
    IN  AttachAll(d, run, Len(d))

\* the documents a response or a page_source may parse to
DocsUpTo(n) ==
    HeadVariants \cup {WithBody(h, r) : h \in HeadVariants, r \in FragRuns(n)}

Docs == DocsUpTo(MaxFrags)

\* ------------------------------------------------------------------ state
VARIABLES
    pc,                   \* where the caller or the running call stands
    fn,                   \* the entry point running, or the one that last ran
    driver,               \* selenium: the local `driver` (None or a session id)
    driver_arg,           \* selenium: the `driver` argument as the caller gave it
    close_driver,         \* selenium: the `close_driver` argument
    created_local_driver, \* selenium: the flag of scraper.py:73
    status,               \* plain: the response's status code, once there is one
    html,                 \* the parsed markup, once there is one
    pending,              \* selenium: what the try block ended with, before finally
    result,               \* what reached the caller: Returned(..) or Raised(..)
    trace,                \* the outside calls this call has made, in order
    sessions,             \* every browser session ever opened, by id
    at_entry,             \* selenium: `sessions` as it was when the call was made
    calls,                \* calls started, per entry point
    gets,                 \* requests.get calls made since the start
    unclosable            \* selenium calls that launched a session with close_driver false

vars == <<pc, fn, driver, driver_arg, close_driver, created_local_driver, status,
          html, pending, result, trace, sessions, at_entry, calls, gets, unclosable>>

locals == <<driver, driver_arg, close_driver, created_local_driver, status, html,
            pending, at_entry>>

Selenium == "fetch_website_contents_selenium"
EntryPoints == {"fetch_website_contents", "fetch_website_links", Selenium}
Started == calls["fetch_website_contents"] + calls["fetch_website_links"]
           + calls[Selenium]

\* the status codes an HTTP response may carry (http.client accepts 100..999)
Statuses == {101, 200, 204, 304, 399, 400, 404, 500, 599, 600, 999}

\* An environment: the markup the network or the browser may deliver, the
\* status codes, how many calls the caller makes and how many sessions it opens.
Lifecycle ==
    [docs |-> DocsUpTo(0), statuses |-> Statuses, budget |-> MaxCalls,
     own |-> MaxCallerSessions]
Extraction ==
    [docs |-> Docs, statuses |-> {200}, budget |-> 1, own |-> 0]

Init ==
    /\ pc = "idle"
    /\ fn = ""
    /\ driver = None
    /\ driver_arg = None
    /\ close_driver = FALSE
    /\ created_local_driver = FALSE
    /\ status = None
    /\ html = None
    /\ pending = None
    /\ result = None
    /\ trace = <<>>
    /\ sessions = <<>>
    /\ at_entry = <<>>
    /\ calls = [f \in EntryPoints |-> 0]
    /\ gets = 0
    /\ unclosable = 0

\* ------------------------------------------------------------- plain path
\* a status check that lets client errors through
raise_for_status_5xx_only(code) == 500 <= code /\ code < 600

\* response.raise_for_status() (scraper.py:18, :40): requests raises HTTPError
\* for a 4xx or 5xx status and for no other
raise_for_status(code) == 400 <= code /\ code < 600

\* One whole plain call (scraper.py:17-30 or :39-44): the GET, the status
\* check, the parse, the extraction.  transport_ok, code, parse_ok and soup
\* are what the network and the parser answer.
plain_call(name, extracted, transport_ok, code, parse_ok, soup) ==
    /\ fn' = name
    /\ calls' = [calls EXCEPT ![name] = @ + 1]
    /\ gets' = gets + 1
    /\ trace' = <<"requests.get">>
    /\ pc' = "done"
    /\ status' = IF transport_ok THEN Some(code) ELSE None
    /\ html' = IF transport_ok /\ ~raise_for_status(code) /\ parse_ok
               THEN Some(soup) ELSE None
    /\ result' = Some(IF ~transport_ok THEN Raised("ConnectionError")
                      ELSE IF raise_for_status(code) THEN Raised("HTTPError")
                      ELSE IF ~parse_ok THEN Raised("ParserRejectedMarkup")
                      ELSE extracted)
    /\ UNCHANGED <<driver, driver_arg, close_driver, created_local_driver, pending,
                   sessions, at_entry, unclosable>>

fetch_website_contents(E) ==
    /\ pc = "idle"
    /\ Started < E.budget
    /\ \E transport_ok \in BOOLEAN, code \in E.statuses, parse_ok \in BOOLEAN,
          soup \in E.docs :
          plain_call("fetch_website_contents", contents_of_response(soup),
                     transport_ok, code, parse_ok, soup)

fetch_website_links(E) ==
    /\ pc = "idle"
    /\ Started < E.budget
    /\ \E transport_ok \in BOOLEAN, code \in E.statuses, parse_ok \in BOOLEAN,
          soup \in E.docs :
          plain_call("fetch_website_links", links_of_response(soup),
                     transport_ok, code, parse_ok, soup)

\* ---------------------------------------------------------- rendered path
Open(by) == [state |-> "open", by |-> by]

CallerSessions == {i \in 1..Len(sessions) : sessions[i].by = "caller"}

\* the caller opens a browser session of its own
CallerOpens(E) ==
    /\ pc = "idle"
    /\ Cardinality(CallerSessions) < E.own
    /\ sessions' = Append(sessions, Open("caller"))
    /\ UNCHANGED <<pc, fn, locals, result, trace, calls, gets, unclosable>>

\* the caller quits a session of its own
CallerQuits ==
    /\ pc = "idle"
    /\ \E i \in CallerSessions :
          /\ sessions[i].state = "open"
          /\ sessions' = [sessions EXCEPT ![i].state = "closed"]
    /\ UNCHANGED <<pc, fn, locals, result, trace, calls, gets, unclosable>>

\* the call is made (scraper.py:47, :73)
selenium_enter(E) ==
    /\ pc = "idle"
    /\ Started < E.budget
    /\ \E d \in {None} \cup {Some(i) : i \in CallerSessions}, c \in BOOLEAN :
          /\ driver_arg' = d
          /\ driver' = d
          /\ close_driver' = c
    /\ created_local_driver' = FALSE
    /\ fn' = Selenium
    /\ calls' = [calls EXCEPT ![Selenium] = @ + 1]
    /\ at_entry' = sessions
    /\ pc' = "L75"
    /\ trace' = <<>>
    /\ result' = None
    /\ status' = None
    /\ html' = None
    /\ pending' = None
    /\ UNCHANGED <<sessions, gets, unclosable>>

\* scraper.py:75-89: a driver is created when none was given; webdriver.Chrome
\* may raise, and that is outside the try block
selenium_create ==
    /\ pc = "L75"
    /\ IF driver = None
       THEN \E launched \in BOOLEAN :
              /\ trace' = Append(trace, "webdriver.Chrome")
              /\ IF launched
                 THEN /\ sessions' = Append(sessions, Open("internal"))
                      /\ driver' = Some(Len(sessions) + 1)
                      /\ created_local_driver' = TRUE
                      /\ unclosable' = IF close_driver THEN unclosable
                                       ELSE unclosable + 1
                      /\ pc' = "L92"
                      /\ UNCHANGED result
                 ELSE /\ result' = Some(Raised("WebDriverException"))
                      /\ pc' = "done"
                      /\ UNCHANGED <<sessions, driver, created_local_driver,
                                     unclosable>>
       ELSE /\ pc' = "L92"
            /\ UNCHANGED <<trace, sessions, driver, created_local_driver, unclosable,
                           result>>
    /\ UNCHANGED <<fn, driver_arg, close_driver, status, html, pending, at_entry, calls,
                   gets>>

\* a step of the try block: it either goes on to `next` or leaves the block
\* with an exception, for the finally clause to run
try_step(call, ok, next) ==
    /\ trace' = Append(trace, call)
    /\ IF ok
       THEN pc' = next /\ UNCHANGED pending
       ELSE pc' = "finally" /\ pending' = Some(Raised("WebDriverException"))

\* scraper.py:92: driver.get(url); a session that was quit cannot navigate
selenium_get ==
    /\ pc = "L92"
    /\ \E ok \in BOOLEAN :
          /\ ok => sessions[driver[1]].state = "open"
          /\ try_step("driver.get", ok, "L95")
    /\ UNCHANGED <<fn, driver, driver_arg, close_driver, created_local_driver, status,
                   html, result, sessions, at_entry, calls, gets, unclosable>>

\* scraper.py:95-99: driver.implicitly_wait(5), then time.sleep(2)
selenium_wait ==
    /\ pc = "L95"
    /\ \E ok \in BOOLEAN : try_step("driver.implicitly_wait", ok, "L101")
    /\ UNCHANGED <<fn, driver, driver_arg, close_driver, created_local_driver, status,
                   html, result, sessions, at_entry, calls, gets, unclosable>>

\* scraper.py:101-113: page_source is read, parsed, and the text extracted
selenium_read(E) ==
    /\ pc = "L101"
    /\ trace' = Append(trace, "driver.page_source")
    /\ pc' = "finally"
    /\ \E read_ok \in BOOLEAN, parse_ok \in BOOLEAN, soup \in E.docs :
          /\ html' = IF read_ok /\ parse_ok THEN Some(soup) ELSE None
          /\ pending' = Some(IF ~read_ok THEN Raised("WebDriverException")
                             ELSE IF ~parse_ok THEN Raised("ParserRejectedMarkup")
                             ELSE contents_of_page_source(soup))
    /\ UNCHANGED <<fn, driver, driver_arg, close_driver, created_local_driver, status,
                   result, sessions, at_entry, calls, gets, unclosable>>

\* a finally clause that forgets who made the driver
quit_owed_any_driver(created, close) == close

\* a finally clause that forgets the flag
quit_owed_any_flag(created, close) == created

\* scraper.py:115, the condition under which the finally clause quits
quit_owed(created, close) == created /\ close

\* the quit placed after the return value is computed instead of in a finally
\* clause: an exception skips it
selenium_quit_on_success_only ==
    /\ pc = "finally"
    /\ IF created_local_driver /\ close_driver /\ pending[1].raised = ""
       THEN /\ sessions' = [sessions EXCEPT ![driver[1]].state = "closed"]
            /\ trace' = Append(trace, "driver.quit")
       ELSE UNCHANGED <<sessions, trace>>
    /\ result' = pending
    /\ pc' = "done"
    /\ UNCHANGED <<fn, driver, driver_arg, close_driver, created_local_driver, status,
                   html, pending, at_entry, calls, gets, unclosable>>

\* scraper.py:114-116: the finally clause, then the return or the exception
\* reaches the caller
selenium_finally ==
    /\ pc = "finally"
    /\ IF quit_owed(created_local_driver, close_driver)
       THEN /\ sessions' = [sessions EXCEPT ![driver[1]].state = "closed"]
            /\ trace' = Append(trace, "driver.quit")
       ELSE UNCHANGED <<sessions, trace>>
    /\ result' = pending
    /\ pc' = "done"
    /\ UNCHANGED <<fn, driver, driver_arg, close_driver, created_local_driver, status,
                   html, pending, at_entry, calls, gets, unclosable>>

\* the caller takes what the call gave and goes on; the call's frame is gone
Return ==
    /\ pc = "done"
    /\ pc' = "idle"
    /\ fn' = ""
    /\ driver' = None
    /\ driver_arg' = None
    /\ close_driver' = FALSE
    /\ created_local_driver' = FALSE
    /\ status' = None
    /\ html' = None
    /\ pending' = None
    /\ at_entry' = <<>>
    /\ result' = None
    /\ trace' = <<>>
    /\ UNCHANGED <<sessions, calls, gets, unclosable>>

\* --------------------------------------------------------- specifications
Calls(E) ==
    \/ fetch_website_contents(E)
    \/ fetch_website_links(E)
    \/ selenium_enter(E)
    \/ selenium_create
    \/ selenium_get
    \/ selenium_wait
    \/ selenium_read(E)
    \/ selenium_finally
    \/ Return

Next == Calls(Lifecycle) \/ CallerOpens(Lifecycle) \/ CallerQuits

\* the lifecycle: several calls, the caller's own sessions, every status code
Spec == Init /\ [][Next]_vars

NextExtract == Calls(Extraction)

\* the extraction: one call on every document of Docs
SpecExtract == Init /\ [][NextExtract]_vars

\* ------------------------------------------------------- claims: lifecycle
Events(name) == {k \in 1..Len(trace) : trace[k] = name}
SeleniumDone == fn = Selenium /\ pc = "done"
PlainDone == fn \in {"fetch_website_contents", "fetch_website_links"} /\ pc = "done"
\* sessions opened since the running call was made
CreatedInCall == Len(sessions) - Len(at_entry)
OpenInternal == {i \in 1..Len(sessions) :
                    sessions[i].by = "internal" /\ sessions[i].state = "open"}

\* C1: whenever a rendered fetch has ended, by a return or by an exception of
\* any step, the session it used was quit by the call if and only if the call
\* created it and close_driver is true; a session that existed before the call
\* (the caller's) is as it was, and a created one is open when the flag is false.
C1_ClosedIffCreatedAndAsked ==
    SeleniumDone =>
        /\ \A i \in 1..Len(at_entry) : sessions[i] = at_entry[i]
        /\ (Events("driver.quit") # {}) <=> (CreatedInCall = 1 /\ close_driver)
        /\ CreatedInCall = 1 =>
              ((sessions[Len(sessions)].state = "closed") <=> close_driver)

\* the scenario of the rendered fetch: created inside, close_driver false,
\* navigation raises, the session stays open and the error is the caller's
C1_Witness ==
    /\ SeleniumDone
    /\ driver_arg = None
    /\ ~close_driver
    /\ trace = <<"webdriver.Chrome", "driver.get">>
    /\ result = Some(Raised("WebDriverException"))
    /\ sessions[Len(sessions)] = Open("internal")

\* C2: a rendered fetch that failed made every outside call at most once (no
\* retry), made no requests.get (gets counts the plain calls alone), gave no
\* text, and when a quit was owed the quit is the last thing it did, before the
\* exception reached the caller.
C2_FailsOnceAndCleansUp ==
    (SeleniumDone /\ result[1].raised # "") =>
        /\ \A j, k \in 1..Len(trace) : j < k => trace[j] # trace[k]
        /\ Events("requests.get") = {}
        /\ gets = calls["fetch_website_contents"] + calls["fetch_website_links"]
        /\ result[1].value = <<>>
        /\ (CreatedInCall = 1 /\ close_driver) =>
              /\ trace[Len(trace)] = "driver.quit"
              /\ sessions[Len(sessions)].state = "closed"

C2_Witness ==
    /\ SeleniumDone
    /\ close_driver
    /\ result = Some(Raised("WebDriverException"))
    /\ trace = <<"webdriver.Chrome", "driver.get", "driver.implicitly_wait",
                 "driver.quit">>
    /\ sessions[Len(sessions)].state = "closed"

\* C10: a rendered fetch given a driver creates none; one given none calls
\* webdriver.Chrome once and has one more session unless that call raised.
\* Between calls, the internally created sessions still open are as many as the
\* calls that launched one with close_driver false.
C10_LeakedSessionsCounted ==
    /\ pc \in {"idle", "done"} => Cardinality(OpenInternal) = unclosable
    /\ SeleniumDone =>
          IF driver_arg # None
          THEN CreatedInCall = 0 /\ Events("webdriver.Chrome") = {}
          ELSE /\ Events("webdriver.Chrome") = {1}
               /\ CreatedInCall = (IF trace = <<"webdriver.Chrome">> THEN 0 ELSE 1)

C10_Witness ==
    /\ pc = "idle"
    /\ calls[Selenium] = 2
    /\ unclosable = 2
    /\ Cardinality(OpenInternal) = 2

\* C7 as stated: one requests.get per plain call, and the call fails whenever
\* the GET ended in a transport error or a status outside 200..399.
C7_AsStated ==
    /\ gets = calls["fetch_website_contents"] + calls["fetch_website_links"]
    /\ PlainDone =>
          /\ trace = <<"requests.get">>
          /\ (status = None \/ status[1] < 200 \/ status[1] >= 400) =>
                /\ result[1].raised # ""
                /\ result[1].value = <<>>

\* C7, amended: every plain call makes exactly one requests.get, so the GETs
\* made are as many as the plain calls made; when the GET ends in a transport
\* error or a 4xx or 5xx status the call fails with that error, nothing is
\* parsed and nothing is returned.
C7_OneGetAndErrorsPropagate ==
    /\ gets = calls["fetch_website_contents"] + calls["fetch_website_links"]
    /\ PlainDone =>
          /\ trace = <<"requests.get">>
          /\ (status = None \/ (status[1] >= 400 /\ status[1] < 600)) =>
                /\ result[1].raised \in {"ConnectionError", "HTTPError"}
                /\ result[1].value = <<>>
                /\ html = None

\* text, then links: the second call has made the second GET, and a 404 fails it
C7_Witness ==
    /\ PlainDone
    /\ fn = "fetch_website_links"
    /\ calls["fetch_website_contents"] = 1
    /\ gets = 2
    /\ status = Some(404)
    /\ result = Some(Raised("HTTPError"))

\* ------------------------------------------------------ claims: extraction
\* Stated on the document itself, node by node, not through the operators above.
Chars(str) == {str[i] : i \in 1..Len(str)}
Occurs(c, str) == \E i \in 1..Len(str) : str[i] = c
IsPrefix(pre, str) == Len(pre) <= Len(str) /\ SubSeq(str, 1, Len(pre)) = pre
IsTag(doc, i, names) == doc[i].kind = "Tag" /\ doc[i].name \in names
Noise == {"script", "style", "img", "input"}

\* the first element of that name in the document, 0 when there is none
RECURSIVE FirstTag(_, _, _)
FirstTag(doc, name, i) ==
    IF i > Len(doc) THEN 0
    ELSE IF IsTag(doc, i, {name}) THEN i
    ELSE FirstTag(doc, name, i + 1)

\* the text content of element e: its text nodes, in order, as they are
RECURSIVE TextContent(_, _, _)
TextContent(doc, e, i) ==
    IF i > Len(doc) THEN <<>>
    ELSE (IF doc[i].kind = "NavigableString" /\ IsDescendant(doc, i, e)
          THEN doc[i].text ELSE <<>>) \o TextContent(doc, e, i + 1)

\* node i is a noise element inside the body, or lies inside one
InNoise(doc, body, i) ==
    \E a \in 1..Len(doc) :
        /\ IsTag(doc, a, Noise)
        /\ IsDescendant(doc, a, body)
        /\ (i = a \/ IsDescendant(doc, i, a))

\* the text nodes that remain inside the body after the noise is removed
Remaining(doc, body) ==
    {i \in 1..Len(doc) :
        /\ doc[i].kind = "NavigableString"
        /\ IsDescendant(doc, i, body)
        /\ ~InNoise(doc, body, i)}

\* the text nodes of `rem` trimmed and joined by newlines; with dropBlank,
\* those that trim to nothing are left out
RECURSIVE Lines(_, _, _, _, _)
Lines(doc, rem, dropBlank, i, first) ==
    IF i > Len(doc) THEN <<>>
    ELSE IF i \in rem /\ ~(dropBlank /\ strip(doc[i].text) = <<>>)
    THEN (IF first THEN <<>> ELSE <<NL>>) \o strip(doc[i].text)
         \o Lines(doc, rem, dropBlank, i + 1, FALSE)
    ELSE Lines(doc, rem, dropBlank, i + 1, first)

BodyText(doc, dropBlank) ==
    IF FirstTag(doc, "body", 1) = 0 THEN <<>>
    ELSE Lines(doc, Remaining(doc, FirstTag(doc, "body", 1)), dropBlank, 1, TRUE)

\* the title the result was built from (the call returned, so there was one)
TitleUsed(doc) ==
    IF FirstTag(doc, "title", 1) = 0 THEN NoTitleFound
    ELSE string(doc, FirstTag(doc, "title", 1))[1]

ContentsReturned ==
    /\ fn = "fetch_website_contents"
    /\ pc = "done"
    /\ html # None
    /\ result[1].raised = ""

\* C3: the text fetch_website_contents returns is the first min(2000, n)
\* characters of title + "\n\n" + body_text, n being that string's length: never
\* longer than 2000, the whole string when n <= 2000, and cut at 2000 wherever
\* the cut falls.
C3_FirstLimitCharacters ==
    ContentsReturned =>
        LET full == TitleUsed(html[1]) \o <<NL, NL>> \o BodyText(html[1], TRUE)
            out == result[1].value
        IN  /\ Len(out) <= Limit
            /\ Len(out) = Min(Limit, Len(full))
            /\ IsPrefix(out, full)
            /\ Len(full) <= Limit => out = full

\* a 3000-character body under a short title: the result is cut inside the body
C3_Witness ==
    /\ ContentsReturned
    /\ TitleUsed(html[1]) = <<"t">>
    /\ Len(BodyText(html[1], TRUE)) = Limit + 1000
    /\ Len(result[1].value) = Limit
    /\ result[1].value[Limit] = "x"

\* C4 as stated: with a title element the output begins with the text of the
\* first title element and two newlines, without one it begins with
\* "No title found" and two newlines (as far as the 2000-character cut lets it).
C4_AsStated ==
    (fn = "fetch_website_contents" /\ pc = "done" /\ html # None) =>
        LET doc == html[1]
            t == FirstTag(doc, "title", 1)
            lead == (IF t = 0 THEN NoTitleFound ELSE TextContent(doc, t, 1))
                    \o <<NL, NL>>
        IN  /\ result[1].raised = ""
            /\ IsPrefix(slice(lead, Limit), result[1].value)

\* C5 as stated: nothing of the text content of a script, style, img or input
\* element appears in the output.  A substring appears exactly when its
\* characters do, so no character of that text may occur in the output.
C5_AsStated ==
    (fn \in {"fetch_website_contents", Selenium} /\ pc = "done" /\ html # None
        /\ result[1].raised = "") =>
        \A e \in 1..Len(html[1]) :
            IsTag(html[1], e, Noise) =>
                \A c \in Chars(TextContent(html[1], e, 1)) :
                    ~Occurs(c, result[1].value)

\* the characters of the text inside the noise elements of the body
NoiseChars(doc) ==
    UNION {Chars(TextContent(doc, e, 1)) :
             e \in {a \in 1..Len(doc) :
                      /\ IsTag(doc, a, Noise)
                      /\ FirstTag(doc, "body", 1) # 0
                      /\ IsDescendant(doc, a, FirstTag(doc, "body", 1))}}

\* c is in what the output is made of: the title, the remaining text nodes of
\* the body, the newlines that join them
Allowed(doc, c) ==
    \/ c = NL
    \/ Occurs(c, TitleUsed(doc))
    \/ \E i \in Remaining(doc, FirstTag(doc, "body", 1)) : Occurs(c, doc[i].text)

\* C5, amended: the text of the script, style, img and input elements inside
\* the body is discarded: a character the document has only inside such
\* elements is nowhere in the output, of the plain and of the rendered fetch.
C5_NoiseTextDiscarded ==
    (fn \in {"fetch_website_contents", Selenium} /\ pc = "done" /\ html # None
        /\ result[1].raised = "") =>
        \A c \in NoiseChars(html[1]) :
            Occurs(c, result[1].value) => Allowed(html[1], c)

\* <style>k</style> beside <p> x </p>: x is in the output, k is not
C5_Witness ==
    /\ ContentsReturned
    /\ "k" \in NoiseChars(html[1])
    /\ ~Allowed(html[1], "k")
    /\ Occurs("x", result[1].value)
    /\ ~Occurs("k", result[1].value)

\* the href values of the anchors whose href is present and not empty, in
\* document order
RECURSIVE Hrefs(_, _)
Hrefs(doc, i) ==
    IF i > Len(doc) THEN <<>>
    ELSE (IF IsTag(doc, i, {"a"}) /\ doc[i].href \notin {None, Some("")}
          THEN doc[i].href ELSE <<>>) \o Hrefs(doc, i + 1)

LinksReturned ==
    /\ fn = "fetch_website_links"
    /\ pc = "done"
    /\ html # None

\* C6: fetch_website_links returns exactly the href values of the anchors whose
\* href is present and non-empty, in document order, duplicates kept; an anchor
\* with a missing or empty href contributes nothing.
C6_HrefsInDocumentOrder ==
    LinksReturned =>
        /\ result[1].raised = ""
        /\ result[1].value = Hrefs(html[1], 1)

\* <a href="/y"> then <a>, <a href="">, <a href="/x"> then <a href="/x">
C6_Witness ==
    /\ LinksReturned
    /\ Cardinality({i \in 1..Len(html[1]) : IsTag(html[1], i, {"a"})}) = 4
    /\ result[1].value = <<"/x", "/x">>

\* C8 as stated: body_text is every remaining text node of the body, trimmed,
\* joined by single newlines, and without a body the result is the title and
\* exactly two newlines (as far as the 2000-character cut lets it).
C8_AsStated ==
    ContentsReturned =>
        LET doc == html[1]
        IN  IF FirstTag(doc, "body", 1) = 0
            THEN result[1].value = slice(TitleUsed(doc) \o <<NL, NL>>, Limit)
            ELSE result[1].value =
                    slice(TitleUsed(doc) \o <<NL, NL>> \o BodyText(doc, FALSE), Limit)

\* C8, amended: body_text is the remaining text nodes of the body in document
\* order, each trimmed, those that trim to nothing left out, joined by single
\* newlines; without a body it is empty and the result is the title and two
\* newlines, cut to 2000 characters like every result.
C8_BodyTextOfNonBlankNodes ==
    ContentsReturned =>
        LET doc == html[1]
        IN  /\ result[1].value =
                  slice(TitleUsed(doc) \o <<NL, NL>> \o BodyText(doc, TRUE), Limit)
            /\ FirstTag(doc, "body", 1) = 0 =>
                  result[1].value = slice(TitleUsed(doc) \o <<NL, NL>>, Limit)

\* <p> x </p> followed by a whitespace-only node: the result is "t\n\nx"
C8_Witness ==
    /\ ContentsReturned
    /\ \E i \in Remaining(html[1], FirstTag(html[1], "body", 1)) :
          html[1][i].text # <<>> /\ strip(html[1][i].text) = <<>>
    /\ result[1].value = <<"t", NL, NL, "x">>

\* C9: on the same markup the rendered fetch gives what the plain fetch gives,
\* and the plain fetch what the rendered one gives: the same string, or no
\* string for both.
C9_SameExtraction ==
    /\ (SeleniumDone /\ html # None) => result[1] = contents_of_response(html[1])
    /\ (fn = "fetch_website_contents" /\ pc = "done" /\ html # None) =>
          result[1] = contents_of_page_source(html[1])

\* a rendered page with a style element in its body, its text returned
C9_Witness ==
    /\ SeleniumDone
    /\ html # None
    /\ result[1].raised = ""
    /\ \E e \in 1..Len(html[1]) :
          IsTag(html[1], e, {"style"}) /\ IsDescendant(html[1], e, FirstTag(html[1], "body", 1))
    /\ Len(result[1].value) = Limit
====
